---- MODULE Spec2Model ----
(***************************************************************************)
(* A model of the shard queuer of serenity's gateway bridge                *)
(* (src/src/gateway/bridge/shard_queuer.rs): the loop ShardQueuer::run,    *)
(* its helpers check_last_start, checked_start and start, the command      *)
(* channel rx, the boot queue, the shared map of runners and the runner    *)
(* tasks that start spawns.                                                *)
(*                                                                         *)
(* Time is discrete (one Tick is one second).  An Instant is kept as its   *)
(* age (the value Instant::elapsed would return), saturated at             *)
(* WAIT_BETWEEN_BOOTS_IN_SECONDS: the code compares an age with nothing    *)
(* but that constant.  An Option is a sequence of length at most one.      *)
(* ScenarioSpec runs the same loop on the three commands of the scenario   *)
(* of three shards, with a stopwatch (now) that Spec leaves unset.         *)
(***************************************************************************)
EXTENDS Naturals, Sequences, FiniteSets

\* ------------------------------------------------------------------ bounds

\* Shard ids are 0..MaxId.
MaxId == 1
\* Shard totals carried by a Start command are 1..MaxTotal.
MaxTotal == 1
\* The number of messages the shard manager sends on the channel.
MaxCmds == 2
\* Shard::new and the runners lock take 0..MaxConnect seconds.
MaxConnect == 1
\* The counters of attempts and failures stop counting at MaxCount.
MaxCount == 3

\* --------------------------------------------------------------- constants

WAIT_BETWEEN_BOOTS_IN_SECONDS == 5

TIMEOUT == WAIT_BETWEEN_BOOTS_IN_SECONDS

\* ------------------------------------------------------------------- state

VARIABLES
    pc,          \* where run is: "recv", "gate", "connect", "spawned", "stopped"
    rx,          \* the messages sent on the channel and not yet received
    open,        \* whether a sender of the channel is still alive
    sent,        \* the number of messages sent so far
    queue,       \* ShardQueuer::queue, the shards queued for booting
    last_start,  \* ShardQueuer::last_start, as the age of the instant
    waited,      \* how long the current rx.next() has been pending
    to_sleep,    \* what is left of the sleep of check_last_start
    cur,         \* the arguments (id, total) of the running checked_start
    src,         \* where they came from: "fresh" (a Start) or "backlog"
    runners,     \* ShardQueuer::runners, ShardId -> ShardRunnerInfo
    tasks,       \* the runner tasks spawned so far, in the order of spawning
    begun,       \* the age of the instant at which the last start began
    issued,      \* per shard id, the Start commands sent so far
    attempts,    \* the calls of start for shard Tracked so far
    fails,       \* those of them that returned Err
    now,         \* a stopwatch, in seconds since run began, if one is kept
    stream,      \* the uwl::Stream of a message: its text and its offset
    config,      \* the Configuration the parsing functions are given
    parse_map,   \* the ParseMap try_parse is given
    called,      \* the parsing function that has been called, if any
    before,      \* the offset of the stream when it was called
    ret          \* what it returned

vars == <<pc, rx, open, sent, queue, last_start, waited, to_sleep, cur, src,
          runners, tasks, begun, issued, attempts, fails, now,
          stream, config, parse_map, called, before, ret>>

\* The state of the shard queuer and of what surrounds it.
queuerVars == <<pc, rx, open, sent, queue, last_start, waited, to_sleep, cur,
                src, runners, tasks, begun, issued, attempts, fails, now>>

\* The state of the parsing of a message.
parseVars == <<stream, config, parse_map, called, before, ret>>

ShardIds == 0..MaxId

Totals == 1..MaxTotal

ShardInfo(id, total) == [id |-> id, total |-> total]

ShardInfos == [id : ShardIds, total : Totals]

Start(id, total) == [type |-> "Start", id |-> id, total |-> total]

Shutdown == [type |-> "Shutdown", id |-> 0, total |-> 0]

\* ----------------------------------------------------------------- helpers

Min(a, b) == IF a < b THEN a ELSE b

\* One more second on an age, saturated.
Older(age) == Min(age + 1, WAIT_BETWEEN_BOOTS_IN_SECONDS)

\* One more second on an optional instant.
OlderOpt(inst) == IF inst = <<>> THEN <<>> ELSE <<Older(inst[1])>>

\* The shard whose starts are counted: the code treats all ids alike.
Tracked == CHOOSE i \in ShardIds : \A j \in ShardIds : i <= j

\* One more start of shard id on a counter, which stops at MaxCount.
Bump(n, id) == IF id = Tracked /\ n < MaxCount THEN n + 1 ELSE n

\* check_last_start sleeping a second too little.
CheckLastStartShort(inst) ==
    IF inst = <<>> THEN 0
    ELSE IF inst[1] + 1 >= WAIT_BETWEEN_BOOTS_IN_SECONDS THEN 0
    ELSE WAIT_BETWEEN_BOOTS_IN_SECONDS - inst[1] - 1

\* check_last_start sleeping a second more for every failure so far.
CheckLastStartBackoff(inst) ==
    IF inst = <<>> THEN 0
    ELSE IF inst[1] >= WAIT_BETWEEN_BOOTS_IN_SECONDS THEN 0
    ELSE WAIT_BETWEEN_BOOTS_IN_SECONDS - inst[1] + fails

\* check_last_start: how long it sleeps.
CheckLastStart(inst) ==
    IF inst = <<>> THEN 0
    ELSE IF inst[1] >= WAIT_BETWEEN_BOOTS_IN_SECONDS THEN 0
    ELSE WAIT_BETWEEN_BOOTS_IN_SECONDS - inst[1]

\* The Err branch passing the id where ShardInfo::new takes the total.
RequeueIdAsTotal(q, id, total) == Append(q, ShardInfo(id, id))

\* The Err branch with push_front for push_back.
RequeueFront(q, id, total) == <<ShardInfo(id, total)>> \o q

\* The Err branch pushing the shard twice.
RequeueTwice(q, id, total) ==
    Append(Append(q, ShardInfo(id, total)), ShardInfo(id, total))

\* checked_start, the Err branch:
\* self.queue.push_back(ShardInfo::new(id, total)).
Requeue(q, id, total) == Append(q, ShardInfo(id, total))

\* A ShardRunnerInfo built as if the runner were connected already.
RunnerInfoConnected(task) ==
    [latency |-> <<>>, stage |-> "Connected", shard |-> task]

\* The ShardRunnerInfo start builds for the runner task it spawns.
RunnerInfo(task) ==
    [latency |-> <<>>, stage |-> "Disconnected", shard |-> task]

\* An insert that keeps the record the map already holds for the id.
InsertKeepOld(map, id, info) ==
    [k \in DOMAIN map \cup {id} |-> IF k \in DOMAIN map THEN map[k] ELSE info]

\* HashMap::insert.
Insert(map, id, info) ==
    [k \in DOMAIN map \cup {id} |-> IF k = id THEN info ELSE map[k]]

\* ------------------------------------------------------------------- Init

\* The ShardQueuer as constructed, its channel open and empty.
NewQueuer ==
    /\ pc = "recv"
    /\ rx = <<>>
    /\ open = TRUE
    /\ sent = 0
    /\ queue = <<>>
    /\ last_start = <<>>
    /\ waited = 0
    /\ to_sleep = 0
    /\ cur = <<>>
    /\ src = "none"
    /\ runners = <<>>
    /\ tasks = <<>>
    /\ begun = <<>>
    /\ issued = [i \in ShardIds |-> 0]
    /\ attempts = 0
    /\ fails = 0
    /\ now = <<>>

\* No message is being parsed.
NoParse ==
    /\ stream = [src |-> <<>>, offset |-> 0]
    /\ config = <<>>
    /\ parse_map = <<>>
    /\ called = "none"
    /\ before = 0
    /\ ret = <<>>

Init == NewQueuer /\ NoParse

\* ------------------------------------------------- the shard manager's side

SendStart ==
    /\ open
    /\ sent < MaxCmds
    /\ \E id \in ShardIds, total \in Totals :
          /\ rx' = Append(rx, Start(id, total))
          /\ issued' = [issued EXCEPT ![id] = @ + 1]
    /\ sent' = sent + 1
    /\ UNCHANGED <<pc, open, queue, last_start, waited, to_sleep, cur, src,
                   runners, tasks, begun, attempts, fails, now, parseVars>>

SendShutdown ==
    /\ open
    /\ sent < MaxCmds
    /\ rx' = Append(rx, Shutdown)
    /\ sent' = sent + 1
    /\ UNCHANGED <<pc, open, queue, last_start, waited, to_sleep, cur, src,
                   runners, tasks, begun, attempts, fails, issued, now,
                   parseVars>>

DropSender ==
    /\ open
    /\ open' = FALSE
    /\ UNCHANGED <<pc, rx, sent, queue, last_start, waited, to_sleep, cur, src,
                   runners, tasks, begun, attempts, fails, issued, now,
                   parseVars>>

\* ---------------------------------------------------------------- the loop

\* checked_start without the call of check_last_start.
EnterCheckedStartNoGate(id, total, from) ==
    /\ cur' = <<ShardInfo(id, total)>>
    /\ src' = from
    /\ to_sleep' = 0
    /\ waited' = 0
    /\ pc' = "gate"

\* checked_start(id, total) is entered: check_last_start computes its sleep.
EnterCheckedStart(id, total, from) ==
    /\ cur' = <<ShardInfo(id, total)>>
    /\ src' = from
    /\ to_sleep' = CheckLastStart(last_start)
    /\ waited' = 0
    /\ pc' = "gate"

\* checked_start returns: self.last_start = Some(Instant::now()), and run goes
\* back to timeout(TIMEOUT, self.rx.next()).
LeaveCheckedStart ==
    /\ last_start' = <<0>>
    /\ cur' = <<>>
    /\ src' = "none"
    /\ waited' = 0
    /\ pc' = "recv"

\* The Shutdown arm going on with the loop instead of breaking.
RecvShutdownIgnored ==
    /\ pc = "recv"
    /\ rx # <<>>
    /\ Head(rx).type = "Shutdown"
    /\ rx' = Tail(rx)
    /\ waited' = 0
    /\ UNCHANGED <<pc, open, sent, queue, last_start, to_sleep, cur, src,
                   runners, tasks, begun, issued, attempts, fails, now,
                   parseVars>>

\* The Shutdown arm clearing the queue before it breaks.
RecvShutdownClearing ==
    /\ pc = "recv"
    /\ rx # <<>>
    /\ Head(rx).type = "Shutdown"
    /\ rx' = Tail(rx)
    /\ queue' = <<>>
    /\ pc' = "stopped"
    /\ UNCHANGED <<open, sent, last_start, waited, to_sleep, cur, src, runners,
                   tasks, begun, issued, attempts, fails, now, parseVars>>

\* Ok(Some(ShardQueuerMessage::Shutdown)) => break
RecvShutdown ==
    /\ pc = "recv"
    /\ rx # <<>>
    /\ Head(rx).type = "Shutdown"
    /\ rx' = Tail(rx)
    /\ pc' = "stopped"
    /\ UNCHANGED <<open, sent, queue, last_start, waited, to_sleep, cur, src,
                   runners, tasks, begun, attempts, fails, issued, now,
                   parseVars>>

\* The Start arm taken after the loop was left.
RecvStartAfterStop ==
    /\ pc \in {"recv", "stopped"}
    /\ rx # <<>>
    /\ Head(rx).type = "Start"
    /\ rx' = Tail(rx)
    /\ EnterCheckedStart(Head(rx).id, Head(rx).total, "fresh")
    /\ UNCHANGED <<open, sent, queue, last_start, runners, tasks, begun,
                   attempts, fails, issued, now, parseVars>>

\* Ok(Some(ShardQueuerMessage::Start(id, total))) => checked_start(id, total.0)
RecvStart ==
    /\ pc = "recv"
    /\ rx # <<>>
    /\ Head(rx).type = "Start"
    /\ rx' = Tail(rx)
    /\ EnterCheckedStart(Head(rx).id, Head(rx).total, "fresh")
    /\ UNCHANGED <<open, sent, queue, last_start, runners, tasks, begun,
                   attempts, fails, issued, now, parseVars>>

\* The Ok(None) arm starting the front of the queue as the timeout arm does.
RecvNoneDraining ==
    /\ pc = "recv"
    /\ rx = <<>>
    /\ ~open
    /\ IF queue # <<>>
       THEN /\ queue' = Tail(queue)
            /\ cur' = <<Head(queue)>>
            /\ src' = "backlog"
            /\ to_sleep' = 0
            /\ pc' = "gate"
       ELSE /\ pc' = "stopped"
            /\ UNCHANGED <<queue, to_sleep, cur, src>>
    /\ UNCHANGED <<rx, open, sent, last_start, waited, runners, tasks,
                   begun, attempts, fails, issued, now, parseVars>>

\* Ok(None) => break
RecvNone ==
    /\ pc = "recv"
    /\ rx = <<>>
    /\ ~open
    /\ pc' = "stopped"
    /\ UNCHANGED <<rx, open, sent, queue, last_start, waited, to_sleep, cur,
                   src, runners, tasks, begun, attempts, fails, issued, now,
                   parseVars>>

\* The timeout arm starting the front of the queue without removing it.
TimeoutPeek ==
    /\ pc = "recv"
    /\ rx = <<>>
    /\ open
    /\ waited >= TIMEOUT
    /\ IF queue # <<>>
       THEN /\ EnterCheckedStart(Head(queue).id, Head(queue).total, "backlog")
            /\ UNCHANGED queue
       ELSE /\ waited' = 0
            /\ UNCHANGED <<pc, queue, to_sleep, cur, src>>
    /\ UNCHANGED <<rx, open, sent, last_start, runners, tasks, begun, issued,
                   attempts, fails, now, parseVars>>

\* The timeout arm doing nothing.
TimeoutIdle ==
    /\ pc = "recv"
    /\ rx = <<>>
    /\ open
    /\ waited >= TIMEOUT
    /\ waited' = 0
    /\ UNCHANGED <<pc, rx, open, sent, queue, last_start, to_sleep, cur, src,
                   runners, tasks, begun, issued, attempts, fails, now,
                   parseVars>>

\* The timeout arm taken although a command is on the channel.
TimeoutOverCommand ==
    /\ pc = "recv"
    /\ open
    /\ IF queue # <<>>
       THEN /\ queue' = Tail(queue)
            /\ EnterCheckedStart(Head(queue).id, Head(queue).total, "backlog")
       ELSE /\ waited' = 0
            /\ UNCHANGED <<pc, queue, to_sleep, cur, src>>
    /\ UNCHANGED <<rx, open, sent, last_start, runners, tasks, begun,
                   attempts, fails, issued, now, parseVars>>

\* The timeout arm with pop_back for pop_front.
TimeoutPopBack ==
    /\ pc = "recv"
    /\ rx = <<>>
    /\ open
    /\ waited >= TIMEOUT
    /\ IF queue # <<>>
       THEN /\ queue' = SubSeq(queue, 1, Len(queue) - 1)
            /\ EnterCheckedStart(queue[Len(queue)].id, queue[Len(queue)].total,
                                 "backlog")
       ELSE /\ waited' = 0
            /\ UNCHANGED <<pc, queue, to_sleep, cur, src>>
    /\ UNCHANGED <<rx, open, sent, last_start, runners, tasks, begun,
                   attempts, fails, issued, now, parseVars>>

\* The timeout arm starting the front of the queue and dropping the rest.
TimeoutDrainAll ==
    /\ pc = "recv"
    /\ rx = <<>>
    /\ open
    /\ waited >= TIMEOUT
    /\ IF queue # <<>>
       THEN /\ queue' = <<>>
            /\ EnterCheckedStart(Head(queue).id, Head(queue).total, "backlog")
       ELSE /\ waited' = 0
            /\ UNCHANGED <<pc, queue, to_sleep, cur, src>>
    /\ UNCHANGED <<rx, open, sent, last_start, runners, tasks, begun,
                   attempts, fails, issued, now, parseVars>>

\* The timeout arm breaking out of the loop when the queue is empty.
TimeoutStopsIdle ==
    /\ pc = "recv"
    /\ rx = <<>>
    /\ open
    /\ waited >= TIMEOUT
    /\ IF queue # <<>>
       THEN /\ queue' = Tail(queue)
            /\ EnterCheckedStart(Head(queue).id, Head(queue).total, "backlog")
       ELSE /\ pc' = "stopped"
            /\ UNCHANGED <<waited, queue, to_sleep, cur, src>>
    /\ UNCHANGED <<rx, open, sent, last_start, runners, tasks, begun,
                   attempts, fails, issued, now, parseVars>>

\* Err(_) => if let Some(shard) = self.queue.pop_front() { checked_start(..) }
Timeout ==
    /\ pc = "recv"
    /\ rx = <<>>
    /\ open
    /\ waited >= TIMEOUT
    /\ IF queue # <<>>
       THEN /\ queue' = Tail(queue)
            /\ EnterCheckedStart(Head(queue).id, Head(queue).total, "backlog")
       ELSE /\ waited' = 0
            /\ UNCHANGED <<pc, queue, to_sleep, cur, src>>
    /\ UNCHANGED <<rx, open, sent, last_start, runners, tasks, begun, attempts,
                   fails, issued, now, parseVars>>

\* check_last_start returns and start(id, total) is called: Shard::new begins.
GateDone ==
    /\ pc = "gate"
    /\ to_sleep = 0
    /\ pc' = "connect"
    /\ begun' = <<0>>
    /\ attempts' = Bump(attempts, cur[1].id)
    /\ UNCHANGED <<rx, open, sent, queue, last_start, waited, to_sleep, cur,
                   src, runners, tasks, fails, issued, now, parseVars>>

\* start inserting a record although Shard::new returned Err.
StartErrInserting ==
    /\ pc = "connect"
    /\ queue' = Requeue(queue, cur[1].id, cur[1].total)
    /\ fails' = Bump(fails, cur[1].id)
    /\ runners' = Insert(runners, cur[1].id, RunnerInfo(Len(tasks)))
    /\ LeaveCheckedStart
    /\ UNCHANGED <<rx, open, sent, to_sleep, tasks, begun, issued, attempts,
                   now, parseVars>>

\* checked_start setting last_start only when start returned Ok.
StartErrNoStamp ==
    /\ pc = "connect"
    /\ queue' = Requeue(queue, cur[1].id, cur[1].total)
    /\ fails' = Bump(fails, cur[1].id)
    /\ cur' = <<>>
    /\ src' = "none"
    /\ waited' = 0
    /\ pc' = "recv"
    /\ UNCHANGED <<rx, open, sent, last_start, to_sleep, runners, tasks,
                   begun, attempts, issued, now, parseVars>>

\* Shard::new(..).await? returns Err: start returns it, checked_start
\* re-queues the shard and sets last_start.
StartErr ==
    /\ pc = "connect"
    /\ queue' = Requeue(queue, cur[1].id, cur[1].total)
    /\ fails' = Bump(fails, cur[1].id)
    /\ LeaveCheckedStart
    /\ UNCHANGED <<rx, open, sent, to_sleep, runners, tasks, begun, attempts,
                   issued, now, parseVars>>

\* start spawning no runner task for a shard id that has one already.
StartSpawnReusing ==
    /\ pc = "connect"
    /\ tasks' = IF \E t \in 1..Len(tasks) : tasks[t].id = cur[1].id
                THEN tasks
                ELSE Append(tasks, [id |-> cur[1].id, state |-> "started"])
    /\ pc' = "spawned"
    /\ UNCHANGED <<rx, open, sent, queue, last_start, waited, to_sleep, cur,
                   src, runners, begun, attempts, fails, issued, now,
                   parseVars>>

\* Shard::new returns Ok: the runner and its ShardRunnerInfo are built and
\* spawn_named launches the runner task; start then awaits the runners lock.
StartSpawn ==
    /\ pc = "connect"
    /\ tasks' = Append(tasks, [id |-> cur[1].id, state |-> "started"])
    /\ pc' = "spawned"
    /\ UNCHANGED <<rx, open, sent, queue, last_start, waited, to_sleep, cur,
                   src, runners, begun, attempts, fails, issued, now,
                   parseVars>>

\* start returning only once the runner task it spawned has ended.
StartInsertJoining ==
    /\ pc = "spawned"
    /\ tasks[Len(tasks)].state = "exited"
    /\ runners' = Insert(runners, cur[1].id, RunnerInfo(Len(tasks)))
    /\ LeaveCheckedStart
    /\ UNCHANGED <<rx, open, sent, queue, to_sleep, tasks, begun, attempts,
                   fails, issued, now, parseVars>>

\* self.runners.lock().await.insert(id, runner_info); Ok(()); checked_start
\* sets last_start.
StartInsert ==
    /\ pc = "spawned"
    /\ runners' = Insert(runners, cur[1].id, RunnerInfo(Len(tasks)))
    /\ LeaveCheckedStart
    /\ UNCHANGED <<rx, open, sent, queue, to_sleep, tasks, begun, attempts,
                   fails, issued, now, parseVars>>

\* --------------------------------------------------------- the runner tasks

\* A runner reports its stage and latency to the record of its shard id, if
\* the map holds one.
RunnerUpdate ==
    \E t \in 1..Len(tasks) :
        /\ tasks[t].state = "started"
        /\ tasks' = [tasks EXCEPT ![t].state = "updated"]
        /\ runners' = IF tasks[t].id \in DOMAIN runners
                      THEN [runners EXCEPT ![tasks[t].id].stage = "Connected",
                                           ![tasks[t].id].latency = <<1>>]
                      ELSE runners
        /\ UNCHANGED <<pc, rx, open, sent, queue, last_start, waited, to_sleep,
                       cur, src, begun, issued, attempts, fails, now,
                       parseVars>>

\* A runner task that puts its shard on the queue when it ends.
RunnerExitRequeueing ==
    \E t \in 1..Len(tasks) :
        /\ tasks[t].state # "exited"
        /\ tasks' = [tasks EXCEPT ![t].state = "exited"]
        /\ queue' = Append(queue, ShardInfo(tasks[t].id, 1))
        /\ UNCHANGED <<pc, rx, open, sent, last_start, waited, to_sleep,
                       cur, src, runners, begun, issued, attempts, fails, now,
                       parseVars>>

\* runner.run returns: the task ends.
RunnerExit ==
    \E t \in 1..Len(tasks) :
        /\ tasks[t].state # "exited"
        /\ tasks' = [tasks EXCEPT ![t].state = "exited"]
        /\ UNCHANGED <<pc, rx, open, sent, queue, last_start, waited, to_sleep,
                       cur, src, runners, begun, issued, attempts, fails, now,
                       parseVars>>

\* -------------------------------------------------------------------- time

\* When a second can pass.  The loop is delayed by nothing but what it awaits:
\* the channel (until a message, the closing or the timeout), the sleep of
\* check_last_start, and Shard::new with the runners lock, which take at most
\* MaxConnect seconds together.
CanPass ==
    \/ pc = "recv" /\ rx = <<>> /\ open /\ waited < TIMEOUT
    \/ pc = "gate" /\ to_sleep > 0
    \/ pc \in {"connect", "spawned"} /\ begun[1] < MaxConnect

Tick ==
    /\ CanPass
    /\ last_start' = OlderOpt(last_start)
    /\ begun' = OlderOpt(begun)
    /\ waited' = IF pc = "recv" THEN Older(waited) ELSE waited
    /\ to_sleep' = IF pc = "gate" /\ to_sleep > 0 THEN to_sleep - 1 ELSE to_sleep
    /\ now' = IF now = <<>> THEN <<>> ELSE <<now[1] + 1>>
    /\ UNCHANGED <<pc, rx, open, sent, queue, cur, src, runners, tasks,
                   attempts, fails, issued,
                   parseVars>>

\* ----------------------------------------------------------- specification

Run ==
    \/ RecvShutdown
    \/ RecvStart
    \/ RecvNone
    \/ Timeout
    \/ GateDone
    \/ StartErr
    \/ StartSpawn
    \/ StartInsert

\* The shard manager, which owns the senders of the channel.
Manager ==
    \/ SendStart
    \/ SendShutdown
    \/ DropSender

Next ==
    \/ Manager
    \/ Run
    \/ RunnerUpdate
    \/ RunnerExit
    \/ Tick

Spec == Init /\ [][Next]_vars

\* The loop with the manager and the clock, the runner tasks left as spawned:
\* no step of a runner task writes a variable the loop reads.
LoopNext ==
    \/ Manager
    \/ Run
    \/ Tick

\* The loop is a task the runtime keeps scheduling, Shard::new and the runners
\* lock return, and time passes.  Nothing is assumed of the manager.
FairSpec == Init /\ [][LoopNext]_vars /\ WF_vars(Run) /\ WF_vars(Tick)

\* ------------------------------------------------------------ the scenario

\* The commands of the scenario of three shards: the manager has sent them
\* back to back before run polls the channel, and sends nothing after them.
ScenarioCmds == <<Start(0, 3), Start(1, 3), Start(2, 3)>>

\* The state after construction with those commands on the channel and a
\* stopwatch started.
ScenarioInit ==
    /\ pc = "recv"
    /\ rx = ScenarioCmds
    /\ open = TRUE
    /\ sent = Len(ScenarioCmds)
    /\ queue = <<>>
    /\ last_start = <<>>
    /\ waited = 0
    /\ to_sleep = 0
    /\ cur = <<>>
    /\ src = "none"
    /\ runners = <<>>
    /\ tasks = <<>>
    /\ begun = <<>>
    /\ issued = [i \in ShardIds |-> 0]
    /\ attempts = 0
    /\ fails = 0
    /\ now = <<0>>
    /\ NoParse

\* The start the scenario forces to fail: that of the Start command of
\* shard 1.
ForcedToFail == cur = <<ShardInfo(1, 3)>> /\ src = "fresh"

\* Shard::new returns Err for the start forced to fail.
ScenarioStartErr == ForcedToFail /\ StartErr

\* Shard::new returns Ok for every other start.
ScenarioStartSpawn == ~ForcedToFail /\ StartSpawn

\* Every command has been taken and no shard is left to start.
ScenarioDone == pc = "recv" /\ rx = <<>> /\ queue = <<>>

\* Time passes until the scenario is over.
ScenarioTick == ~ScenarioDone /\ Tick

ScenarioNext ==
    \/ RecvStart
    \/ Timeout
    \/ GateDone
    \/ ScenarioStartErr
    \/ ScenarioStartSpawn
    \/ StartInsert
    \/ RunnerUpdate
    \/ RunnerExit
    \/ ScenarioTick

ScenarioSpec == ScenarioInit /\ [][ScenarioNext]_vars

\* ------------------------------------------------- the parsing of a message

\* A string is the sequence of its characters; a Stream is the text src with
\* the offset of the next character to read (uwl::Stream).

\* The longest stream mention is given.
MaxStream == 5

Digits == {"1", "2"}

Whitespace == {" "}

\* The strings over the characters of A of length n at most.
Strings(A, n) == UNION {[1..k -> A] : k \in 0..n}

\* Stream::rest: what is left to read.
Rest(s) == SubSeq(s.src, s.offset + 1, Len(s.src))

\* Whether the text t begins with the text p.
StartsWith(t, p) == Len(p) <= Len(t) /\ SubSeq(t, 1, Len(p)) = p

\* Stream::eat(m), what it returns: whether the stream reads m next.
Eats(s, m) == StartsWith(Rest(s), m)

\* Stream::increment(n).
Increment(s, n) == [s EXCEPT !.offset = @ + n]

\* Stream::eat(m), what it does: it moves past m if the stream reads m next.
Eat(s, m) == IF Eats(s, m) THEN Increment(s, Len(m)) ELSE s

\* How many characters at the front of the text t are in the set P.
RunLength(t, P) ==
    CHOOSE n \in 0..Len(t) :
        /\ \A k \in 1..n : t[k] \in P
        /\ n < Len(t) => t[n + 1] \notin P

\* Stream::take_while and take_while_char, what they return: the characters
\* of P the stream reads next.
Taken(s, P) == SubSeq(Rest(s), 1, RunLength(Rest(s), P))

\* Stream::take_while and take_while_char, what they do: they move past them.
TakeWhile(s, P) == Increment(s, RunLength(Rest(s), P))

\* Stream::peek_for_char(n): the next n characters, or those that are left.
PeekForChar(s, n) == SubSeq(Rest(s), 1, Min(n, Len(Rest(s))))

\* Stream::peek_until_char(P): the next characters up to the first of P.
PeekUntilChar(s, P) ==
    Taken(s, {c \in {s.src[k] : k \in 1..Len(s.src)} : c \notin P})

\* A mention that leaves the stream where it stopped reading.
SetNot(s, pos) == s

\* Stream::set(pos): "Backtrack to where we were."
Set(s, pos) == [s EXCEPT !.offset = pos]

\* mention(stream, config): ret is what it returns (an Option) and stream the
\* stream as it leaves it.
Mention(s, cfg) ==
    IF cfg.on_mention = <<>> THEN [ret |-> <<>>, stream |-> s]
    ELSE
      LET on_mention == cfg.on_mention[1]
          start == s.offset
          s1 == Eat(s, <<"<", "@">>)
          s2 == Eat(s1, <<"!">>)
          id == Taken(s2, Digits)
          s3 == TakeWhile(s2, Digits)
          s4 == Eat(s3, <<">">>)
      IN  IF ~Eats(s, <<"<", "@">>) THEN [ret |-> <<>>, stream |-> s]
          ELSE IF ~Eats(s3, <<">">>)
               THEN [ret |-> <<>>, stream |-> Set(s3, start)]
          ELSE IF id = on_mention THEN [ret |-> <<id>>, stream |-> s4]
          ELSE [ret |-> <<>>, stream |-> Set(s4, start)]

\* The text <@id> and the text <@!id>.
Direct(id) == <<"<", "@">> \o id \o <<">">>

Nickname(id) == <<"<", "@", "!">> \o id \o <<">">>

\* The characters of the messages mention is given.
MentionChars == {"<", "@", "!", ">", " "} \cup Digits

\* A message, read up to some offset, and a Configuration with on_mention
\* unset or set to a user id.
MentionInit ==
    /\ NewQueuer
    /\ \E text \in Strings(MentionChars, MaxStream) :
       \E offset \in 0..Min(1, Len(text)) :
          stream = [src |-> text, offset |-> offset]
    /\ \E on_mention \in {<<>>, <<<<"1">>>>, <<<<"1", "2">>>>, <<<<>>>>} :
          config = [on_mention |-> on_mention]
    /\ parse_map = <<>>
    /\ called = "none"
    /\ before = 0
    /\ ret = <<>>

\* mention(stream, config) is called and returns.
CallMention ==
    /\ called = "none"
    /\ called' = "mention"
    /\ before' = stream.offset
    /\ stream' = Mention(stream, config).stream
    /\ ret' = Mention(stream, config).ret
    /\ UNCHANGED <<config, parse_map, queuerVars>>

MentionSpec == MentionInit /\ [][CallMention]_vars

\* The longest text after the prefix in the messages prefix is given.
MaxTail == 2

\* char::to_lowercase, of the characters of the messages.
Lower(c) == IF c = "A" THEN "a" ELSE c

\* to_lowercase(config, s).
ToLowercase(cfg, t) ==
    IF cfg.case_insensitive THEN [k \in 1..Len(t) |-> Lower(t[k])] ELSE t

\* find_prefix, the closure try_match: the text the stream reads next, of the
\* length of the prefix and in lower case if the configuration asks for it,
\* if it is the prefix.
TryMatch(s, cfg, prefix) ==
    LET peeked == ToLowercase(cfg, PeekForChar(s, Len(prefix)))
    IN  IF prefix = peeked THEN <<peeked>> ELSE <<>>

\* find_prefix: the first dynamic prefix that matches, of those that the
\* closures of dynamic_prefixes return, or else the first static one.
FindPrefix(s, cfg) ==
    LET dyn == cfg.dynamic_prefixes
        dhits == {k \in 1..Len(dyn) :
                     /\ dyn[k] # <<>>
                     /\ TryMatch(s, cfg, ToLowercase(cfg, dyn[k][1])) # <<>>}
        shits == {k \in 1..Len(cfg.prefixes) :
                     TryMatch(s, cfg, cfg.prefixes[k]) # <<>>}
        first(H) == CHOOSE k \in H : \A j \in H : k <= j
    IN  IF dhits # {}
        THEN TryMatch(s, cfg, ToLowercase(cfg, dyn[first(dhits)][1]))
        ELSE IF shits # {}
        THEN TryMatch(s, cfg, cfg.prefixes[first(shits)])
        ELSE <<>>

\* A prefix that leaves the whitespace after a mention.
PrefixMentionUnclear(s, cfg) ==
    LET m == Mention(s, cfg)
        prefix == FindPrefix(m.stream, cfg)
        s1 == IF prefix # <<>> THEN Increment(m.stream, Len(prefix[1]))
              ELSE m.stream
        s2 == IF cfg.with_whitespace.prefixes THEN TakeWhile(s1, Whitespace)
              ELSE s1
    IN  IF m.ret # <<>> THEN [ret |-> m.ret, stream |-> m.stream]
        ELSE [ret |-> prefix, stream |-> s2]

\* prefix(ctx, msg, stream, config): ret is what it returns and stream the
\* stream as it leaves it.
Prefix(s, cfg) ==
    LET m == Mention(s, cfg)
        prefix == FindPrefix(m.stream, cfg)
        s1 == IF prefix # <<>> THEN Increment(m.stream, Len(prefix[1]))
              ELSE m.stream
        s2 == IF cfg.with_whitespace.prefixes THEN TakeWhile(s1, Whitespace)
              ELSE s1
    IN  IF m.ret # <<>>
        THEN [ret |-> m.ret, stream |-> TakeWhile(m.stream, Whitespace)]
        ELSE [ret |-> prefix, stream |-> s2]

\* How the messages prefix is given begin: with nothing, a static or dynamic
\* prefix, a mention of the configured id or of another, or half a mention.
PrefixHeads ==
    {<<>>, <<"!">>, <<"A">>, Direct(<<"1">>), Nickname(<<"1">>),
     Direct(<<"2">>), <<"<", "@", "1">>}

\* A message, unread, and a Configuration.
PrefixInit ==
    /\ NewQueuer
    /\ \E head \in PrefixHeads, tail \in Strings({" ", "a"}, MaxTail) :
          stream = [src |-> head \o tail, offset |-> 0]
    /\ \E on_mention \in {<<>>, <<<<"1">>>>},
          prefixes \in {<<>>, <<<<"!">>>>, <<<<"a">>, <<"!">>>>},
          dynamic_prefixes \in {<<>>, <<<<>>>>, <<<<<<"A">>>>>>},
          with_whitespace \in BOOLEAN,
          case_insensitive \in BOOLEAN :
          config = [on_mention |-> on_mention,
                    prefixes |-> prefixes,
                    dynamic_prefixes |-> dynamic_prefixes,
                    with_whitespace |-> [prefixes |-> with_whitespace],
                    case_insensitive |-> case_insensitive]
    /\ parse_map = <<>>
    /\ called = "none"
    /\ before = 0
    /\ ret = <<>>

\* prefix(ctx, msg, stream, config) is called and returns.
CallPrefix ==
    /\ called = "none"
    /\ called' = "prefix"
    /\ before' = stream.offset
    /\ stream' = Prefix(stream, config).stream
    /\ ret' = Prefix(stream, config).ret
    /\ UNCHANGED <<config, parse_map, queuerVars>>

PrefixSpec == PrefixInit /\ [][CallPrefix]_vars

\* The longest text try_parse is given.
MaxText == 3

\* The longest name of a ParseMap.
MaxName == 2

\* ParseMap::get(n): the entry stored under the name n, here the name itself.
Get(pm, n) == IF n \in pm.names THEN <<n>> ELSE <<>>

\* String::pop: the string without its last character, if it has one.
Pop(n) == IF n = <<>> THEN n ELSE SubSeq(n, 1, Len(n) - 1)

\* try_parse, the loop `for _ in 0..(map.max_length() - map.min_length())`
\* with left iterations to go: o = map.get(&n), break if it is Some, n.pop().
RECURSIVE TryLengths(_, _, _, _)
TryLengths(pm, n, o, left) ==
    IF left = 0 THEN [n |-> n, o |-> o]
    ELSE IF Get(pm, n) # <<>> THEN [n |-> n, o |-> Get(pm, n)]
    ELSE TryLengths(pm, Pop(n), Get(pm, n), left - 1)

\* try_parse(stream, map, by_space, f), with the f that parse_cmd passes,
\* |s| to_lowercase(config, s): the pair (n, o) it returns.  It peeks, and
\* leaves the stream alone.
TryParse(s, pm, by_space, cfg) ==
    IF by_space
    THEN LET n == ToLowercase(cfg, PeekUntilChar(s, Whitespace))
         IN  [n |-> n, o |-> Get(pm, n)]
    ELSE TryLengths(pm, ToLowercase(cfg, PeekForChar(s, pm.max_length)),
                    <<>>, pm.max_length - pm.min_length)

\* The names a ParseMap may hold: not empty, in lower case.
Names == Strings({"a", "b"}, MaxName) \ {<<>>}

\* A message, unread, a Configuration, and a ParseMap of one or two names
\* whose min_length and max_length bound the lengths of its names.
TryParseInit ==
    /\ NewQueuer
    /\ \E text \in Strings({"a", "b", "A", " "}, MaxText) :
          stream = [src |-> text, offset |-> 0]
    /\ \E by_space \in BOOLEAN, case_insensitive \in BOOLEAN :
          config = [by_space |-> by_space,
                    case_insensitive |-> case_insensitive]
    /\ \E n1 \in Names, n2 \in Names :
       \E min_length \in 0..MaxName, max_length \in 0..MaxName :
          /\ \A n \in {n1, n2} : min_length <= Len(n) /\ Len(n) <= max_length
          /\ parse_map = [names |-> {n1, n2},
                          min_length |-> min_length,
                          max_length |-> max_length]
    /\ called = "none"
    /\ before = 0
    /\ ret = <<>>

\* try_parse(stream, map, config.by_space, f) is called and returns.
CallTryParse ==
    /\ called = "none"
    /\ called' = "try_parse"
    /\ before' = stream.offset
    /\ ret' = TryParse(stream, parse_map, config.by_space, config)
    /\ UNCHANGED <<stream, config, parse_map, queuerVars>>

TryParseSpec == TryParseInit /\ [][CallTryParse]_vars

\* ------------------------------------------------------------------ claims

Stopped == pc = "stopped"

\* The step on which start returns Err to checked_start.
StartFails == pc = "connect" /\ pc' = "recv"

\* The step on which start returns Ok to checked_start.
StartSucceeds == pc = "spawned" /\ pc' = "recv"

\* The step on which start is called.
StartBegins == pc = "gate" /\ pc' = "connect"

InQueue(id) == \E k \in 1..Len(queue) : queue[k].id = id

TasksOf(id) == {t \in 1..Len(tasks) : tasks[t].id = id}

\* C1: whatever the mix of Start commands and backlog retries, a start
\* attempt begins at least WAIT_BETWEEN_BOOTS_IN_SECONDS after the attempt
\* before it began, whether that one succeeded or failed.
C1_BootSpacing ==
    [][StartBegins =>
         (begun = <<>> \/ begun[1] >= WAIT_BETWEEN_BOOTS_IN_SECONDS)]_vars

\* A Start command's attempt begins after an attempt that failed.
C1_Witness ==
    /\ pc = "connect"
    /\ begun = <<0>>
    /\ src = "fresh"
    /\ fails >= 1

\* C2: when start fails in checked_start, the backlog afterwards is the
\* backlog before with one entry added at its back, which carries the id and
\* the total of the failed attempt, and the loop goes on running.
C2_RequeueOnFailure ==
    [][(pc = "connect" /\ pc' \notin {"connect", "spawned"}) =>
         /\ Len(queue') = Len(queue) + 1
         /\ SubSeq(queue', 1, Len(queue)) = queue
         /\ queue'[Len(queue')].id = cur[1].id
         /\ queue'[Len(queue')].total = cur[1].total
         /\ pc' = "recv"]_vars

\* A failed start has put its shard behind another entry of the backlog.
C2_Witness ==
    /\ pc = "recv"
    /\ last_start = <<0>>
    /\ Len(queue) >= 2
    /\ fails >= 1
    /\ queue[Len(queue)].id = Tracked
    /\ queue[1].id # Tracked

\* C3: a start that fails leaves the map of runners and the spawned runner
\* tasks as they were.
C3_FailedStartNoRunner ==
    [][StartFails => (runners' = runners /\ tasks' = tasks)]_vars

\* A start has failed for a shard that has no runner, while another shard has
\* one.
C3_Witness ==
    /\ pc = "recv"
    /\ last_start = <<0>>
    /\ fails >= 1
    /\ InQueue(Tracked)
    /\ Tracked \notin DOMAIN runners
    /\ TasksOf(Tracked) = {}
    /\ runners # <<>>

\* C4: once start has succeeded for a shard id, and as long as no runner task
\* of that id has reported anything, the map holds for the id the record of
\* the runner task of that start, with stage Disconnected and no latency.
C4_FreshRecord ==
    /\ [][StartSucceeds =>
            /\ cur[1].id \in DOMAIN runners'
            /\ runners'[cur[1].id].shard = Len(tasks)]_vars
    /\ [](\A i \in DOMAIN runners :
            (\A t \in TasksOf(i) : tasks[t].state = "started") =>
                /\ runners[i].stage = "Disconnected"
                /\ runners[i].latency = <<>>
                /\ runners[i].shard \in TasksOf(i))

\* A start has succeeded and its runner task has not reported yet.
C4_Witness ==
    /\ pc = "recv"
    /\ \E i \in DOMAIN runners :
          /\ TasksOf(i) # {}
          /\ \A t \in TasksOf(i) : tasks[t].state = "started"
          /\ runners[i].stage = "Disconnected"

\* C5: the record of a shard is in the map before its runner task is
\* launched: a runner task that has been launched and has not ended has a
\* record under its shard id.
C5_RecordBeforeSpawn ==
    \A t \in 1..Len(tasks) :
        tasks[t].state # "exited" => tasks[t].id \in DOMAIN runners

\* The entries of the backlog that carry shard id.
CountQ(id) == Cardinality({k \in 1..Len(queue) : queue[k].id = id})

\* No checked_start is running for shard id.
AtRest(id) == cur = <<>> \/ cur[1].id # id

\* C6, as claimed: a shard id that one Start command named and whose start
\* has failed N >= 1 times has been attempted N + 1 times once it has
\* succeeded or the loop has stopped.
C6_AttemptsAsClaimed ==
    (/\ issued[Tracked] = 1
     /\ attempts < MaxCount
     /\ fails >= 1
     /\ AtRest(Tracked)
     /\ (TasksOf(Tracked) # {} \/ Stopped)) => attempts = fails + 1

\* C6, amended: for a shard id that one Start command named, and outside a
\* running checked_start for it: once it has succeeded it has been attempted
\* N + 1 times for its N failures, has one runner task and no entry in the
\* backlog; until then it has been attempted N times and, if N >= 1, has
\* exactly one entry in the backlog, which stays there if the loop stops.
C6_Attempts ==
    (issued[Tracked] = 1 /\ attempts < MaxCount /\ AtRest(Tracked)) =>
        IF TasksOf(Tracked) # {}
        THEN /\ attempts = fails + 1
             /\ Cardinality(TasksOf(Tracked)) = 1
             /\ CountQ(Tracked) = 0
        ELSE /\ attempts = fails
             /\ CountQ(Tracked) = (IF fails >= 1 THEN 1 ELSE 0)

\* A shard named by one Start command has succeeded at its second attempt.
C6_Witness ==
    /\ issued[Tracked] = 1
    /\ AtRest(Tracked)
    /\ fails >= 1
    /\ attempts = fails + 1
    /\ attempts < MaxCount
    /\ TasksOf(Tracked) # {}

\* A start of shard id is wanted: a Start command for it is on the channel or
\* an entry for it is in the backlog.
Requested(id) ==
    \/ InQueue(id)
    \/ \E k \in 1..Len(rx) : rx[k].type = "Start" /\ rx[k].id = id

\* start is running for shard id.
Attempting(id) == pc = "connect" /\ cur[1].id = id

\* C7: while a shard whose start has failed waits in the backlog, however
\* often it fails again, every other shard that is wanted gets its attempt,
\* unless the loop stops first.
C7_NoBlocking ==
    \A i \in ShardIds : \A j \in ShardIds \ {i} :
        (InQueue(i) /\ Requested(j)) ~> (Attempting(j) \/ Stopped)

\* A shard is attempted from the backlog while a shard that has failed twice
\* waits there.
C7_Witness ==
    /\ fails >= 2
    /\ InQueue(Tracked)
    /\ \E j \in ShardIds \ {Tracked} : Attempting(j)
    /\ src = "backlog"

ShutdownSent == \E k \in 1..Len(rx) : rx[k].type = "Shutdown"

\* C9: a Shutdown on the channel leads to run returning.
C9_ShutdownStops == ShutdownSent ~> Stopped

\* run has returned on a Shutdown, with an entry in the backlog and the last
\* start less than WAIT_BETWEEN_BOOTS_IN_SECONDS ago.
C9_Witness ==
    /\ Stopped
    /\ open
    /\ queue # <<>>
    /\ last_start # <<>>
    /\ last_start[1] < WAIT_BETWEEN_BOOTS_IN_SECONDS

\* C10: the step on which run returns changes neither the map of runners, nor
\* the runner tasks, nor the backlog, nor last_start.
C10_StopChangesNothing ==
    [][(~Stopped /\ Stopped') =>
         /\ runners' = runners
         /\ tasks' = tasks
         /\ queue' = queue
         /\ last_start' = last_start]_vars

\* run has returned with a runner task still running, a record in the map and
\* an entry in the backlog.
C10_Witness ==
    /\ Stopped
    /\ queue # <<>>
    /\ runners # <<>>
    /\ last_start # <<>>
    /\ \E t \in 1..Len(tasks) : tasks[t].state # "exited"

\* rx.next() would report the channel closed: no message is left on it and no
\* sender is alive.
ChannelClosed == pc = "recv" /\ rx = <<>> /\ ~open

\* C11: when the receive reports the channel closed, the loop goes to stopped
\* and, as on a Shutdown, changes nothing else: the backlog, the map of
\* runners, the runner tasks, last_start and the channel stay as they were.
C11_ClosedStops ==
    [][(ChannelClosed /\ pc' # pc) =>
         /\ pc' = "stopped"
         /\ queue' = queue
         /\ runners' = runners
         /\ tasks' = tasks
         /\ last_start' = last_start
         /\ rx' = rx
         /\ cur' = cur
         /\ attempts' = attempts]_vars

\* run has returned on the closing of the channel, no Shutdown having been
\* sent, with an entry left in the backlog.
C11_Witness ==
    /\ Stopped
    /\ ~open
    /\ sent = 1
    /\ issued[Tracked] = 1
    /\ queue # <<>>

\* The step that takes an entry out of the backlog.
Pops == Len(queue') < Len(queue)

\* C12: an entry leaves the backlog only on a timeout of the receive, that is
\* with no message on the channel for TIMEOUT, and it is the one that
\* checked_start is given; when the loop polls with a command on the channel,
\* it takes that command and leaves the backlog as it is, and no entry leaves
\* the backlog while the checked_start of a Start command runs.
C12_FreshFirst ==
    /\ [][Pops =>
            /\ pc = "recv"
            /\ rx = <<>>
            /\ waited >= TIMEOUT
            /\ pc' = "gate"
            /\ src' = "backlog"]_vars
    /\ [][(pc = "recv" /\ rx # <<>> /\ pc' # pc) =>
            /\ rx' = Tail(rx)
            /\ queue' = queue
            /\ Head(rx).type = "Start" =>
                  /\ cur' = <<ShardInfo(Head(rx).id, Head(rx).total)>>
                  /\ src' = "fresh"
            /\ Head(rx).type = "Shutdown" => pc' = "stopped"]_vars
    /\ [][src = "fresh" =>
            /\ Len(queue') >= Len(queue)
            /\ SubSeq(queue', 1, Len(queue)) = queue]_vars

\* The start of a Start command is running while the backlog holds an entry.
C12_Witness ==
    /\ pc = "connect"
    /\ src = "fresh"
    /\ queue # <<>>

\* C13: the backlog changes in two ways only: its front entry is taken out
\* and given to checked_start, or one entry is added at its back, by a start
\* that failed; so its entries are started again in the order in which their
\* starts failed.
C13_Fifo ==
    [][queue' # queue =>
         \/ /\ queue # <<>>
            /\ queue' = Tail(queue)
            /\ cur' = <<Head(queue)>>
            /\ src' = "backlog"
         \/ /\ StartFails
            /\ queue' = Append(queue, cur[1])]_vars

\* Of two shards in the backlog, the one whose start failed first is being
\* started again, the other still waiting.
C13_Witness ==
    /\ pc = "connect"
    /\ src = "backlog"
    /\ cur[1].id = Tracked
    /\ fails >= 1
    /\ queue # <<>>
    /\ queue[1].id # Tracked

\* The receive has been pending for TIMEOUT on an open, empty channel.
TimedOut == pc = "recv" /\ rx = <<>> /\ open /\ waited >= TIMEOUT

\* The step of the loop from there: the Err(_) arm of the match.
TimeoutStep == TimedOut /\ (waited' # waited \/ pc' # pc)

\* C14: on a timeout of the receive, a non-empty backlog loses its front
\* entry and nothing else, and checked_start is entered with that entry; with
\* an empty backlog no start is attempted and the backlog, the map of runners,
\* the runner tasks and last_start stay as they were, the loop being back at
\* the receive; in neither case does the loop stop.
C14_TimeoutArm ==
    [][TimeoutStep =>
         /\ pc' # "stopped"
         /\ runners' = runners
         /\ tasks' = tasks
         /\ last_start' = last_start
         /\ attempts' = attempts
         /\ IF queue # <<>>
            THEN /\ queue' = Tail(queue)
                 /\ cur' = <<Head(queue)>>
                 /\ pc' = "gate"
            ELSE /\ queue' = queue
                 /\ cur' = <<>>
                 /\ pc' = "recv"
                 /\ waited' = 0]_vars

\* A timeout has taken the front of a backlog of two entries.
C14_Witness ==
    /\ pc = "gate"
    /\ src = "backlog"
    /\ Len(queue) = 1
    /\ begun # <<>>
    /\ fails >= 1

\* C15: the step on which a start attempt completes, having succeeded or
\* failed, sets last_start to the instant of that step, and no other step
\* gives last_start another instant: it only ages as time passes.
C15_LastStart ==
    /\ [][(StartFails \/ StartSucceeds) => last_start' = <<0>>]_vars
    /\ [][last_start' # last_start =>
            \/ StartFails
            \/ StartSucceeds
            \/ /\ pc' = pc
               /\ last_start # <<>>
               /\ last_start' = <<last_start[1] + 1>>]_vars

\* A start that took a second and failed has just completed: last_start is
\* the instant of its completion, the start began a second before.
C15_Witness ==
    /\ pc = "recv"
    /\ last_start = <<0>>
    /\ begun = <<1>>
    /\ queue # <<>>
    /\ runners = <<>>

\* a - b, or 0 where b exceeds a.
Monus(a, b) == IF a >= b THEN a - b ELSE 0

\* C16: while check_last_start runs, what is left of its sleep is
\* max(0, WAIT_BETWEEN_BOOTS_IN_SECONDS - elapsed) for the time elapsed since
\* last_start, and 0 where last_start is None, whatever the attempts and the
\* failures so far; start is called when nothing is left.
C16_RateGate ==
    /\ [](pc = "gate" =>
            to_sleep = IF last_start = <<>> THEN 0
                       ELSE Monus(WAIT_BETWEEN_BOOTS_IN_SECONDS, last_start[1]))
    /\ [][StartBegins =>
            \/ last_start = <<>>
            \/ last_start[1] >= WAIT_BETWEEN_BOOTS_IN_SECONDS]_vars

\* check_last_start is sleeping for a part of the interval, after two starts
\* that failed.
C16_Witness ==
    /\ pc = "gate"
    /\ to_sleep = 3
    /\ last_start = <<2>>
    /\ fails >= 2

\* C17: the map holds one record per shard id: the step on which start
\* returns Ok leaves under the id the record of the runner task it spawned,
\* in place of the record the id had if it had one, and leaves the records of
\* the other ids alone; the backlog may hold an id more than once, and taking
\* an entry out leaves the other entries of the id in it.
C17_OneRecordPerId ==
    /\ [][StartSucceeds =>
            /\ DOMAIN runners' = DOMAIN runners \cup {cur[1].id}
            /\ Cardinality(DOMAIN runners') =
                   Cardinality(DOMAIN runners)
                     + (IF cur[1].id \in DOMAIN runners THEN 0 ELSE 1)
            /\ runners'[cur[1].id].shard = Len(tasks)
            /\ runners'[cur[1].id].stage = "Disconnected"
            /\ \A k \in DOMAIN runners \ {cur[1].id} :
                   runners'[k] = runners[k]]_vars
    /\ [][Pops =>
            \A i \in ShardIds :
                Cardinality({k \in 1..Len(queue') : queue'[k].id = i}) =
                    CountQ(i) - (IF Head(queue).id = i THEN 1 ELSE 0)]_vars

\* A shard named by two Start commands was twice in the backlog and both
\* entries have been started again; the second success has replaced the
\* record of the first.
C17_Witness ==
    /\ pc = "recv"
    /\ issued[Tracked] = 2
    /\ fails >= 2
    /\ queue = <<>>
    /\ Cardinality(TasksOf(Tracked)) = 2
    /\ DOMAIN runners = {Tracked}
    /\ runners[Tracked].shard = Len(tasks)

\* A start has just begun: start was called at the instant now.
JustBegun == pc = "connect" /\ begun = <<0>>

\* The place in the scenario of the start that is running: 1 for shard 0,
\* 2 for the Start command of shard 1, 3 for shard 2, 4 for the retry of
\* shard 1, and 0 for any other start.
AttemptNo ==
    IF cur = <<ShardInfo(0, 3)>> /\ src = "fresh" THEN 1
    ELSE IF cur = <<ShardInfo(1, 3)>> /\ src = "fresh" THEN 2
    ELSE IF cur = <<ShardInfo(2, 3)>> /\ src = "fresh" THEN 3
    ELSE IF cur = <<ShardInfo(1, 3)>> /\ src = "backlog" THEN 4
    ELSE 0

\* The shard ids of the runner tasks, in the order of their spawning.
TaskIds == [t \in 1..Len(tasks) |-> tasks[t].id]

\* The starts of the scenario come in the order 0, 1, 2, 1, the first start of
\* shard 1 failing, and the scenario ends with records for the ids 0, 1 and 2
\* and an empty backlog.
ScenarioOrder ==
    /\ pc # "stopped"
    /\ pc \in {"connect", "spawned"} => AttemptNo # 0
    /\ (pc \in {"connect", "spawned"} /\ AttemptNo = 1) =>
           Len(rx) = 2 /\ queue = <<>> /\ Len(tasks) <= 1
    /\ (pc \in {"connect", "spawned"} /\ AttemptNo = 2) =>
           Len(rx) = 1 /\ queue = <<>> /\ TaskIds = <<0>>
    /\ (pc \in {"connect", "spawned"} /\ AttemptNo = 3) =>
           /\ rx = <<>>
           /\ queue = <<ShardInfo(1, 3)>>
           /\ 1 \notin DOMAIN runners
           /\ SubSeq(TaskIds, 1, 1) = <<0>>
    /\ (pc \in {"connect", "spawned"} /\ AttemptNo = 4) =>
           /\ rx = <<>>
           /\ queue = <<>>
           /\ SubSeq(TaskIds, 1, 2) = <<0, 2>>
    /\ ScenarioDone =>
           /\ DOMAIN runners = {0, 1, 2}
           /\ TaskIds = <<0, 2, 1>>
           /\ \A i \in DOMAIN runners : tasks[runners[i].shard].id = i

\* C18, as claimed: in the scenario the starts come in the order 0, 1
\* (failing), 2, 1 (succeeding) and begin at 0 s, 5 s, 10 s and 15 s, and the
\* scenario ends with records for exactly the ids 0, 1 and 2 and an empty
\* backlog.
C18_ScenarioAsClaimed ==
    /\ ScenarioOrder
    /\ JustBegun => now[1] = WAIT_BETWEEN_BOOTS_IN_SECONDS * (AttemptNo - 1)

\* C18, amended: the order and the end are as claimed; the starts begin
\* WAIT_BETWEEN_BOOTS_IN_SECONDS after the start before them completed, so
\* the k-th of them begins no sooner than (k - 1) times that interval after
\* the first, and later than that by the time the starts before it took (at
\* most MaxConnect each).
C18_Scenario ==
    /\ ScenarioOrder
    /\ JustBegun =>
           /\ now[1] >= WAIT_BETWEEN_BOOTS_IN_SECONDS * (AttemptNo - 1)
           /\ now[1] <= (WAIT_BETWEEN_BOOTS_IN_SECONDS + MaxConnect)
                            * (AttemptNo - 1)

\* The scenario has ended, with three runner tasks and three records, the
\* retry of shard 1 having begun later than 15 s.
C18_Witness ==
    /\ ScenarioDone
    /\ DOMAIN runners = {0, 1, 2}
    /\ Len(tasks) = 3
    /\ fails = 0
    /\ attempts = 1
    /\ now[1] > 3 * WAIT_BETWEEN_BOOTS_IN_SECONDS

\* The loop waits on an open channel with no command on it and nothing in the
\* backlog.
Idle == pc = "recv" /\ rx = <<>> /\ open /\ queue = <<>>

\* C19: while the backlog is empty, no command is on the channel and the
\* channel is open, no step returns from run, starts a shard or changes the
\* backlog, the records of the map or the instant of last_start; the loop
\* does nothing but count the time of the receive and, when that reaches
\* TIMEOUT and not before, time out and poll again.
C19_IdlePolling ==
    [][Idle =>
         /\ pc' = "recv"
         /\ queue' = <<>>
         /\ cur' = <<>>
         /\ begun' \in {begun, OlderOpt(begun)}
         /\ last_start' \in {last_start, OlderOpt(last_start)}
         /\ Len(tasks') = Len(tasks)
         /\ DOMAIN runners' = DOMAIN runners
         /\ tasks' = tasks => runners' = runners
         /\ waited' # waited =>
                \/ waited < TIMEOUT /\ waited' = waited + 1
                \/ waited = TIMEOUT /\ waited' = 0]_vars

\* The receive has just timed out with nothing to do, a runner being in the
\* map since the last start, over TIMEOUT ago.
C19_Witness ==
    /\ Idle
    /\ waited = 0
    /\ last_start = <<WAIT_BETWEEN_BOOTS_IN_SECONDS>>
    /\ runners # <<>>

\* A step of a runner task.
WorkerStep == tasks' # tasks /\ Len(tasks') = Len(tasks)

\* C20: a step of a runner task, its ending included, changes nothing the
\* loop reads or owns (the backlog, last_start, the loop's position, the
\* channel) and begins no start; no step takes a record out of the map; and
\* an entry is added to the backlog only by a start that failed.
C20_WorkersUnobserved ==
    /\ [][WorkerStep =>
            /\ UNCHANGED <<pc, rx, open, queue, last_start, waited, to_sleep,
                           cur, src, begun, attempts, fails>>
            /\ DOMAIN runners' = DOMAIN runners]_vars
    /\ [][DOMAIN runners \subseteq DOMAIN runners']_vars
    /\ [][Len(queue') > Len(queue) => StartFails]_vars

\* A runner task has ended after its start succeeded; its record is still in
\* the map, and the loop has waited out a timeout with nothing to start.
C20_Witness ==
    /\ Idle
    /\ waited = TIMEOUT
    /\ attempts = 1
    /\ \E t \in 1..Len(tasks) :
          /\ tasks[t].state = "exited"
          /\ tasks[t].id \in DOMAIN runners
          /\ runners[tasks[t].id].shard = t

\* A step on which time passes for the loop without the loop moving on: the
\* loop is suspended at an await.
Suspended ==
    /\ pc' = pc
    /\ \/ begun # <<>> /\ begun' = <<begun[1] + 1>>
       \/ last_start # <<>> /\ last_start' = <<last_start[1] + 1>>
       \/ waited' = waited + 1
       \/ to_sleep' + 1 = to_sleep

C24_StoppedIsTerminal ==
    [][Stopped =>
         /\ pc' = "stopped"
         /\ queue' = queue
         /\ last_start' = last_start
         /\ begun' = begun
         /\ attempts' = attempts
         /\ cur' = cur
         /\ Len(tasks') = Len(tasks)
         /\ DOMAIN runners' = DOMAIN runners
         /\ \A i \in DOMAIN runners : runners'[i].shard = runners[i].shard
         /\ Len(rx') >= Len(rx)
         /\ SubSeq(rx', 1, Len(rx)) = rx]_vars

\* run has returned on a Shutdown and a Start command sent after it is left
\* unread on the channel.
C24_Witness ==
    /\ Stopped
    /\ rx # <<>>
    /\ rx[1].type = "Start"
    /\ attempts = 0
    /\ runners = <<>>

\* The Start commands sent so far for the shard ids of S.
RECURSIVE IssuedTo(_)
IssuedTo(S) ==
    IF S = {} THEN 0
    ELSE LET i == CHOOSE x \in S : TRUE
         IN  issued[i] + IssuedTo(S \ {i})

\* The Start commands still on the channel.
StartsUnread == Cardinality({k \in 1..Len(rx) : rx[k].type = "Start"})

\* The Start commands the loop has taken from the channel.
StartsConsumed == IssuedTo(ShardIds) - StartsUnread

\* C25: between two iterations of the loop, and after it, the Start commands
\* taken from the channel are as many as the starts that succeeded (each has
\* spawned one runner task) and the entries of the backlog together.
C25_Conservation ==
    pc \in {"recv", "stopped"} => StartsConsumed = Len(tasks) + Len(queue)

\* Two Start commands have been taken: one start has succeeded, a later one
\* has failed and waits in the backlog after a retry that failed too.
C25_Witness ==
    /\ pc = "recv"
    /\ rx = <<>>
    /\ StartsConsumed = 2
    /\ Len(tasks) = 1
    /\ Len(queue) = 1
    /\ queue[1].id = Tracked
    /\ fails >= 2

\* The last of a set of runner tasks to be spawned.
Latest(S) == CHOOSE t \in S : \A u \in S : u <= t

\* C26: a runner task is spawned only by a start whose Shard::new returned
\* Ok, one task for the shard id of that start, and that start then returns
\* Ok; a start that fails spawns none; so the runner tasks of a shard id are
\* as many as its starts that succeeded.  While no start of a shard id is
\* running, the map holds a record for the id if and only if a runner task
\* was spawned for it, and the record is that of the latest of them, earlier
\* ones being neither stopped nor reused.
C26_OneTaskPerSuccess ==
    /\ [][Len(tasks') # Len(tasks) =>
            /\ pc = "connect"
            /\ pc' = "spawned"
            /\ tasks' = Append(tasks, [id |-> cur[1].id, state |-> "started"])
       ]_vars
    /\ [][pc = "spawned" => (pc' = "spawned" \/ StartSucceeds)]_vars
    /\ [][StartFails => tasks' = tasks]_vars
    /\ []((AtRest(Tracked) /\ attempts < MaxCount) =>
             Cardinality(TasksOf(Tracked)) = attempts - fails)
    /\ [](\A i \in ShardIds :
             AtRest(i) =>
                 /\ i \in DOMAIN runners <=> TasksOf(i) # {}
                 /\ i \in DOMAIN runners =>
                        runners[i].shard = Latest(TasksOf(i)))

\* Two starts of one shard id have succeeded: both runner tasks are running
\* and the record is that of the second.
C26_Witness ==
    /\ pc = "recv"
    /\ fails = 0
    /\ attempts = 2
    /\ Cardinality(TasksOf(Tracked)) = 2
    /\ \A t \in TasksOf(Tracked) : tasks[t].state # "exited"
    /\ runners[Tracked].shard = Latest(TasksOf(Tracked))

\* What the stream read from the offset before onwards.
RestBefore == SubSeq(stream.src, before + 1, Len(stream.src))

\* on_mention is configured and the stream read <@id> or <@!id> for the id
\* of on_mention, a run of digits.
ReadMention ==
    /\ config.on_mention # <<>>
    /\ \A k \in 1..Len(config.on_mention[1]) :
           config.on_mention[1][k] \in Digits
    /\ \/ StartsWith(RestBefore, Direct(config.on_mention[1]))
       \/ StartsWith(RestBefore, Nickname(config.on_mention[1]))

\* C22: mention returns Some(id) exactly when on_mention is configured and
\* the stream read <@id> or <@!id> with the id of on_mention, and then id is
\* that id and the stream is past the >; whenever it returns None, the offset
\* of the stream is what it was before the call.
C22_Mention ==
    called = "mention" =>
        /\ ret # <<>> <=> ReadMention
        /\ ret # <<>> =>
               /\ ret = config.on_mention
               /\ \/ stream.offset = before + Len(Direct(ret[1]))
                  \/ stream.offset = before + Len(Nickname(ret[1]))
               /\ stream.src[stream.offset] = ">"
        /\ ret = <<>> => stream.offset = before

\* mention has returned None on a mention of another id, read from an offset
\* other than 0.
C22_Witness ==
    /\ called = "mention"
    /\ ret = <<>>
    /\ before = 1
    /\ config.on_mention = <<<<"1">>>>
    /\ StartsWith(RestBefore, Direct(<<"2">>))

\* The stream is at the end of the text or at a character that is not
\* whitespace.
AtNonWhitespace ==
    \/ stream.offset >= Len(stream.src)
    \/ stream.src[stream.offset + 1] \notin Whitespace

PrefixLen == IF ret = <<>> THEN 0 ELSE Len(ret[1])

Candidates ==
    {n \in parse_map.names :
        /\ parse_map.min_length <= Len(n)
        /\ Len(n) <= parse_map.max_length
        /\ StartsWith(ToLowercase(config, RestBefore), n)}

\* The longest of a set of names.
Longest(S) == CHOOSE n \in S : \A x \in S : Len(x) <= Len(n)

\* C27: not by space, try_parse returns the longest name of the map, of a
\* length from min_length to max_length, that the rest of the stream begins
\* with, together with its entry, and no entry only if there is no such name;
\* it leaves the stream where it was.
C27_LongestName ==
    (called = "try_parse" /\ ~config.by_space) =>
        /\ stream.offset = before
        /\ Candidates = {} => ret.o = <<>>
        /\ Candidates # {} =>
               /\ ret.o = <<Longest(Candidates)>>
               /\ ret.n = Longest(Candidates)


====
